---------------------------- MODULE Spec2Model ----------------------------
(***************************************************************************)
(* custom-field-patcher: a model of the script patcher.py (configuration   *)
(* validation, custom field ID fetch, CSV preparation, dispatch loop) and  *)
(* of the helper functions of utils.py (fatal_error, get_bearer_token,     *)
(* get_custom_field_ids, read_and_prepare_csv,                             *)
(* validate_and_expand_config).                                            *)
(*                                                                         *)
(* Python strings that the code inspects character by character (the       *)
(* token) are sequences of one-character strings.  A Python statement      *)
(* sequence is a chain of process states st: each statement runs only      *)
(* while st.raised = "none"; `except Exception` handles "Exception" and    *)
(* lets "SystemExit" (sys.exit) pass, as in Python.                        *)
(***************************************************************************)
EXTENDS Integers, Sequences, FiniteSets, TLC

\* ------------------------------------------------------------------ bounds
MaxTokLen == 4
MaxRows == 2

\* ------------------------------------------------------- values and inputs
Chars == {"$", "{", "}", "X"}
None == <<"None">>
Strings == UNION {[1..n -> Chars] : n \in 0..MaxTokLen}
Secret == <<"s", "e", "c">>
EnvNames == {<<"X">>}
Envs == [EnvNames -> {None, <<>>, Secret}]

FieldNames == {"a", "b"}
NonStr == "<int>"
\* Configured lists hold up to as many entries as there are names; a name may
\* be listed twice (the validators do not require distinct names).
MaxFields == Cardinality(FieldNames)
FieldLists == UNION {[1..n -> FieldNames] : n \in 1..MaxFields}

PlainValues == {None, <<"v">>}
CfnValues ==
    { [type |-> "none", items |-> <<>>],
      [type |-> "str",  items |-> <<"a">>],
      [type |-> "list", items |-> <<"a">>],
      [type |-> "list", items |-> <<"a", NonStr>>] }
NumIdsValues ==
    { [type |-> "none", val |-> 0],
      [type |-> "int",  val |-> 0],
      [type |-> "int",  val |-> 1] }

\* Parsed YAML configurations handed to the validators.  The script reads the
\* keys api_url / auth_token where utils.py reads base_url / api_token; the
\* record keeps the names of utils.py.
Configs ==
    [ csv_path : PlainValues, base_url : PlainValues, tenant : PlainValues,
      api_token : Strings \cup {None},
      custom_field_names : CfnValues, num_ids : NumIdsValues ]

NoConfig ==
    [ csv_path |-> None, base_url |-> None, tenant |-> None, api_token |-> None,
      custom_field_names |-> [type |-> "none", items |-> <<>>],
      num_ids |-> [type |-> "none", val |-> 0] ]
NoEnv == [n \in EnvNames |-> None]

\* Python truthiness of a string-or-None value, of custom_field_names, of num_ids.
Truthy(s) == s # None /\ s # <<>>
CfnTruthy(c) == c.type # "none" /\ c.items # <<>>
NumIdsTruthy(n) == n.type # "none" /\ ~(n.type = "int" /\ n.val = 0)

\* response.ok
StatusCodes == {200, 399, 400, 500}
PatchStatusCodes == {200, 500}
BadRequest == 400
ResponseOk(status) == status < BadRequest

\* -------------------------------------------------------- process state
\* The exit status of a process that has not exited.
NoExit == 0 - 1
NoRet == [kind |-> "none", token |-> None, ids |-> {}, rows |-> <<>>, columns |-> {},
          names |-> <<>>, num_ids |-> 0]

\* log, net: what was written and sent so far; raised: the exception in flight
\* ("none", "Exception", "SystemExit") and detail, the names its text carries;
\* code: the status sys.exit was given; ret: the value returned.
St0 == [log |-> <<>>, net |-> <<>>, raised |-> "none", detail |-> {}, code |-> NoExit,
        ret |-> NoRet]

\* One log record.  `what` names the message; the other fields are the values
\* the message text interpolates (0, "", <<>> or {} where it has none); num is
\* the status code or the count it reports.
Entry(level, what, row, ucid, field, id, num, keys, var) ==
    [level |-> level, what |-> what, row |-> row, use_case_id |-> ucid, field |-> field,
     id |-> id, num |-> num, keys |-> keys, var |-> var]
Msg(level, what) == Entry(level, what, 0, 0, "", "", 0, {}, <<>>)
Keys(level, what, keys) == Entry(level, what, 0, 0, "", "", 0, keys, <<>>)
Num(level, what, num) == Entry(level, what, 0, 0, "", "", num, {}, <<>>)
Field(level, what, field, id) == Entry(level, what, 0, 0, field, id, 0, {}, <<>>)

Logged(st, e) == [st EXCEPT !.log = Append(@, e)]
Raise(st, detail) == [st EXCEPT !.raised = "Exception", !.detail = detail]
\* One request with the reply it met: the method, the use case and custom field
\* identifiers it carries (0, "" where it has none), and whether the call raised
\* or the status it returned.
NetCall(method, ucid, id, reply) ==
    [method |-> method, use_case_id |-> ucid, id |-> id,
     raises |-> reply.raises, status |-> reply.status]
Sent(st, call) == [st EXCEPT !.net = Append(@, call)]

sys_exit_swallowed(st, code) == st
\* sys.exit(code): raises SystemExit carrying the exit status.
sys_exit(st, code) == [st EXCEPT !.raised = "SystemExit", !.code = code]

\* utils.fatal_error: logging.error(message); sys.exit(1).
fatal_error(st, e) == sys_exit(Logged(st, e), 1)

\* Whether the statement after `st` runs / the `except Exception` clause runs.
Running(st) == st.raised = "none"
Caught(st) == st.raised = "Exception"
Handled(st) == [st EXCEPT !.raised = "none"]

\* ----------------------------------------------------- token expansion
StartsWithDollarBrace(s) == Len(s) >= 2 /\ s[1] = "$" /\ s[2] = "{"
EndsWithBrace(s) == Len(s) >= 1 /\ s[Len(s)] = "}"
EnvVarNameFromBrace(s) == SubSeq(s, 2, Len(s) - 1)
\* s[2:-1]
EnvVarName(s) == SubSeq(s, 3, Len(s) - 1)
\* os.getenv(name)
getenv(env, name) == IF name \in DOMAIN env THEN env[name] ELSE None
IsEnvRef(tok) == Truthy(tok) /\ StartsWithDollarBrace(tok) /\ EndsWithBrace(tok)

\* ------------------------------------------------ utils.py: configuration
REQUIRED_KEYS == {"csv_path", "base_url", "api_token", "tenant", "custom_field_names"}

\* not config.get(key)
KeyFalsy(config, key) ==
    CASE key = "csv_path" -> ~Truthy(config.csv_path)
      [] key = "base_url" -> ~Truthy(config.base_url)
      [] key = "api_token" -> ~Truthy(config.api_token)
      [] key = "tenant" -> ~Truthy(config.tenant)
      [] key = "custom_field_names" -> ~CfnTruthy(config.custom_field_names)

MissingKeys(config) == {key \in REQUIRED_KEYS : KeyFalsy(config, key)}

\* isinstance(names, list) and all(isinstance(f, str) for f in names)
IsListOfStr(c) == c.type = "list" /\ \A i \in DOMAIN c.items : c.items[i] # NonStr
\* num_ids is not None and (not isinstance(num_ids, int) or num_ids < 1)
NumIdsInvalid(n) == n.type # "none" /\ (n.type # "int" \/ n.val < 1)

\* The token after the ${VAR} expansion (the config value when it is no reference).
ExpandedToken(config, env) ==
    IF IsEnvRef(config.api_token)
    THEN getenv(env, EnvVarName(config.api_token))
    ELSE config.api_token

ConfigRet(config, token) ==
    [NoRet EXCEPT !.kind = "config", !.token = token,
                  !.names = config.custom_field_names.items,
                  !.num_ids = config.num_ids.val]

\* utils.validate_and_expand_config
validate_and_expand_config(st, config, env) ==
    LET missing_keys == MissingKeys(config)
        s1 == IF missing_keys # {}
              THEN fatal_error(st, Keys("ERROR", "missing_keys", missing_keys))
              ELSE st
        api_token == ExpandedToken(config, env)
        s2 == IF Running(s1) /\ IsEnvRef(config.api_token) /\ ~Truthy(api_token)
              THEN fatal_error(s1, Entry("ERROR", "env_not_set", 0, 0, "", "", 0, {},
                                         EnvVarName(config.api_token)))
              ELSE s1
        s3 == IF Running(s2) /\ ~IsListOfStr(config.custom_field_names)
              THEN fatal_error(s2, Msg("ERROR", "field_names_not_list_of_str"))
              ELSE s2
        s4 == IF Running(s3) /\ NumIdsInvalid(config.num_ids)
              THEN fatal_error(s3, Msg("ERROR", "num_ids_not_positive"))
              ELSE s3
    IN  IF Running(s4) THEN [s4 EXCEPT !.ret = ConfigRet(config, api_token)] ELSE s4

\* ---------------------------------------- patcher.py: configuration (54-89)
\* The script expands the token first, then collects the missing keys (the
\* token as expanded), rejects a badly typed custom_field_names in the `elif`,
\* and only then reports the missing keys.
ScriptMissing(config, AUTH_TOKEN) ==
    {key \in REQUIRED_KEYS :
        IF key = "api_token" THEN ~Truthy(AUTH_TOKEN) ELSE KeyFalsy(config, key)}

script_validation(st, config, env) ==
    LET AUTH_TOKEN == ExpandedToken(config, env)
        s1 == IF IsEnvRef(config.api_token) /\ ~Truthy(AUTH_TOKEN)
              THEN sys_exit(Logged(st, Entry("ERROR", "env_not_set", 0, 0, "", "", 0, {},
                                             EnvVarName(config.api_token))), 1)
              ELSE st
        missing == ScriptMissing(config, AUTH_TOKEN)
        s2 == IF Running(s1) /\ CfnTruthy(config.custom_field_names)
                 /\ ~IsListOfStr(config.custom_field_names)
              THEN sys_exit(Logged(s1, Msg("ERROR", "field_names_not_list_of_str")), 1)
              ELSE s1
        s3 == IF Running(s2) /\ missing # {}
              THEN sys_exit(Logged(s2, Keys("ERROR", "missing_keys", missing)), 1)
              ELSE s2
        s4 == IF Running(s3) /\ NumIdsInvalid(config.num_ids)
              THEN sys_exit(Logged(s3, Msg("ERROR", "num_ids_not_positive")), 1)
              ELSE s3
    IN  IF Running(s4) THEN [s4 EXCEPT !.ret = ConfigRet(config, AUTH_TOKEN)] ELSE s4

\* ------------------------------------------------------ remote responses
Bearer == <<"b", "t">>
NoResponse == [raises |-> FALSE, status |-> 0, json |-> TRUE, token |-> None, data |-> <<>>]
\* requests.post(.../auth/exchange): a transport failure, or a response with a
\* status, a body that parses as JSON or not, and its access_token (None: absent).
AuthResponses ==
    { [NoResponse EXCEPT !.raises = TRUE] } \cup
    { [NoResponse EXCEPT !.status = s, !.json = j, !.token = t] :
        s \in StatusCodes, j \in BOOLEAN, t \in {None, <<>>, Bearer} }

CatalogItems ==
    { [name |-> "a", id |-> "A"], [name |-> "b", id |-> "B"] }
\* The "data" array: the items present, in either order.
Catalogs ==
    { <<>> } \cup { <<x>> : x \in CatalogItems }
             \cup { p \in CatalogItems \X CatalogItems : p[1] # p[2] }
CatalogResponses ==
    { [NoResponse EXCEPT !.raises = TRUE] } \cup
    { [NoResponse EXCEPT !.status = s, !.json = j, !.data = d] :
        s \in StatusCodes, j \in BOOLEAN, d \in Catalogs }
PatchOutcomes ==
    { [NoResponse EXCEPT !.raises = TRUE] } \cup
    { [NoResponse EXCEPT !.status = s] : s \in PatchStatusCodes }

\* --------------------------------------------- utils.get_bearer_token
get_bearer_token(st, resp) ==
    LET posted == Sent(st, NetCall("POST", 0, "", resp))
        s1 == IF resp.raises THEN Raise(posted, {}) ELSE posted
        s2 == IF Running(s1) /\ ~ResponseOk(resp.status)
              THEN fatal_error(s1, Num("ERROR", "exchange_failed", resp.status))
              ELSE s1
        \* response.json().get("access_token")
        s3 == IF Running(s2) /\ ~resp.json THEN Raise(s2, {}) ELSE s2
        bearer_token == resp.token
        s4 == IF Running(s3) /\ ~Truthy(bearer_token)
              THEN fatal_error(s3, Msg("ERROR", "bearer_token_missing"))
              ELSE s3
        s5 == IF Running(s4)
              THEN [Logged(s4, Msg("INFO", "exchanged")) EXCEPT
                        !.ret = [NoRet EXCEPT !.kind = "token", !.token = bearer_token]]
              ELSE s4
    IN  \* except Exception as e
        IF Caught(s5) THEN fatal_error(Handled(s5), Msg("ERROR", "exchange_error")) ELSE s5

\* ------------------------------------------ utils.get_custom_field_ids
Range(seq) == {seq[i] : i \in DOMAIN seq}
CatalogNames(data) == {data[i].name : i \in DOMAIN data}
\* {item["attributes"]["name"]: item["id"] for item in data}: the last item wins.
LastId(data, name) ==
    data[CHOOSE i \in DOMAIN data :
            data[i].name = name /\ \A j \in DOMAIN data : data[j].name = name => j <= i].id
\* for item in data: if name matches: ...; break -- the first item wins.
FirstId(data, name) ==
    data[CHOOSE i \in DOMAIN data :
            data[i].name = name /\ \A j \in DOMAIN data : data[j].name = name => i <= j].id

RECURSIVE LoggedAll(_, _)
LoggedAll(st, entries) ==
    IF entries = <<>> THEN st ELSE LoggedAll(Logged(st, Head(entries)), Tail(entries))

get_custom_field_ids(st, resp, custom_field_names) ==
    LET got == Sent(st, NetCall("GET", 0, "", resp))
        s1 == IF resp.raises THEN Raise(got, {}) ELSE got
        s2 == IF Running(s1) /\ ~ResponseOk(resp.status)
              THEN fatal_error(s1, Num("ERROR", "fetch_failed", resp.status))
              ELSE s1
        \* response.json()["data"]
        s3 == IF Running(s2) /\ ~resp.json THEN Raise(s2, {}) ELSE s2
        data == resp.data
        s4 == IF Running(s3) THEN Logged(s3, Num("INFO", "fetched", Len(data))) ELSE s3
        field_id_map ==
            { [name |-> n, id |-> LastId(data, n)] :
                n \in Range(custom_field_names) \cap CatalogNames(data) }
        perName ==
            [i \in DOMAIN custom_field_names |->
                IF custom_field_names[i] \in CatalogNames(data)
                THEN Field("INFO", "found_id", custom_field_names[i],
                           LastId(data, custom_field_names[i]))
                ELSE Field("WARNING", "not_found", custom_field_names[i], "")]
        s5 == IF Running(s4)
              THEN [Logged(LoggedAll(s4, perName),
                           Num("INFO", "mapped", Cardinality(field_id_map))) EXCEPT
                        !.ret = [NoRet EXCEPT !.kind = "ids", !.ids = field_id_map]]
              ELSE s4
    IN  IF Caught(s5) THEN fatal_error(Handled(s5), Msg("ERROR", "fetch_error")) ELSE s5

\* ------------------------------------------ utils.read_and_prepare_csv
Columns == {"id", "use_case_id"} \cup FieldNames
\* The file at csv_path: unreadable, or a header, a number of data rows, and
\* whether every configured column casts to str.
NoCsv == [readable |-> FALSE, header |-> {}, nrows |-> 0, castable |-> TRUE]
Csvs ==
    { NoCsv } \cup
    [readable : {TRUE}, header : SUBSET Columns, nrows : 0..MaxRows, castable : BOOLEAN]

NotRenamed(header) == header
\* .rename(columns={"id": "use_case_id"})
Renamed(header) == {IF c = "id" THEN "use_case_id" ELSE c : c \in header}
\* The rows as read: the index label (0-based) and the identifier of each.
RowsOf(csv) == [i \in 1..csv.nrows |-> [idx |-> i - 1, use_case_id |-> i]]
Min(a, b) == IF a < b THEN a ELSE b
AllRows(rows, n) == rows
\* df.head(n)
HeadRows(rows, n) == SubSeq(rows, 1, Min(n, Len(rows)))
RequiredColumns(names) == {"use_case_id"} \cup Range(names)

NoTable == [columns |-> {}, rows |-> <<>>]

read_and_prepare_csv(st, csv, custom_field_names, num_ids) ==
    LET s0 == Logged(st, Msg("INFO", "reading_csv"))
        s1 == IF ~csv.readable THEN Raise(s0, {}) ELSE s0
        columns == Renamed(csv.header)
        missing_columns == RequiredColumns(custom_field_names) \ columns
        s2 == IF Running(s1) /\ missing_columns # {}
              THEN Raise(s1, missing_columns)
              ELSE s1
        limited == NumIdsTruthy(num_ids)
        rows == IF limited THEN HeadRows(RowsOf(csv), num_ids.val) ELSE RowsOf(csv)
        s3 == IF Running(s2) /\ limited
              THEN Logged(s2, Num("INFO", "limiting", num_ids.val))
              ELSE s2
        s4 == IF Running(s3) /\ ~csv.castable
              THEN fatal_error(s3, Field("ERROR", "cast_failed", custom_field_names[1], ""))
              ELSE s3
        s5 == IF Running(s4)
              THEN [s4 EXCEPT !.ret = [NoRet EXCEPT !.kind = "table", !.rows = rows,
                                                    !.columns = columns]]
              ELSE s4
    IN  IF Caught(s5)
        THEN fatal_error(Handled(s5), Keys("ERROR", "csv_error", s5.detail))
        ELSE s5

\* ------------------------------- patcher.py: custom field ID fetch (113-153)
fetch_custom_field_ids(st, resp, names) ==
    LET got == Sent(st, NetCall("GET", 0, "", resp))
        s1 == IF resp.raises THEN Raise(got, {}) ELSE got
        ok == ~resp.raises /\ ResponseOk(resp.status)
        s2 == IF Running(s1) /\ ~ok
              THEN Logged(s1, Num("WARNING", "fetch_failed", resp.status))
              ELSE s1
        s3 == IF Running(s2) /\ ok THEN Logged(s2, Msg("INFO", "fetch_ok")) ELSE s2
        \* response.json()["data"]
        s4 == IF Running(s3) /\ ok /\ ~resp.json THEN Raise(s3, {}) ELSE s3
        data == resp.data
        ids == { [name |-> n, id |-> FirstId(data, n)] :
                    n \in Range(names) \cap CatalogNames(data) }
        perName ==
            [i \in DOMAIN names |->
                IF names[i] \in CatalogNames(data)
                THEN Field("INFO", "found_id", names[i], FirstId(data, names[i]))
                ELSE Field("WARNING", "not_found", names[i], "")]
        s5 == IF Running(s4) /\ ok
              THEN [Logged(LoggedAll(Logged(s4, Num("INFO", "fetched", Len(data))), perName),
                           Num("INFO", "mapped", Cardinality(ids))) EXCEPT
                        !.ret = [NoRet EXCEPT !.kind = "ids", !.ids = ids]]
              ELSE s4
        \* inner `except Exception`: logging.error, and the script goes on
        s6 == IF Caught(s5) THEN Logged(Handled(s5), Msg("ERROR", "fetch_error")) ELSE s5
    IN  \* outer `except Exception`: logging.error, sys.exit(1)
        IF Caught(s6) THEN sys_exit(Logged(Handled(s6), Msg("ERROR", "fetch_error")), 1)
        ELSE s6

\* ------------------------------ patcher.py: CSV read and validation (156-178)
read_csv(st, csv, names, num_ids) ==
    LET s0 == Logged(st, Msg("INFO", "reading_csv"))
        s1 == IF ~csv.readable THEN Raise(s0, {}) ELSE s0
        columns == Renamed(csv.header)
        missing == RequiredColumns(names) \ columns
        s2 == IF Running(s1) /\ missing # {} THEN Raise(s1, missing) ELSE s1
        limited == NumIdsTruthy(num_ids)
        rows == IF limited THEN HeadRows(RowsOf(csv), num_ids.val) ELSE RowsOf(csv)
        s3 == IF Running(s2) /\ limited
              THEN Logged(s2, Num("INFO", "limiting", num_ids.val))
              ELSE s2
        s4 == IF Running(s3) /\ ~csv.castable
              THEN sys_exit(Logged(s3, Field("ERROR", "cast_failed", names[1], "")), 1)
              ELSE s3
        s5 == IF Running(s4)
              THEN [s4 EXCEPT !.ret = [NoRet EXCEPT !.kind = "table", !.rows = rows,
                                                    !.columns = columns]]
              ELSE s4
    IN  IF Caught(s5)
        THEN sys_exit(Logged(Handled(s5), Keys("ERROR", "csv_error", s5.detail)), 1)
        ELSE s5

\* ------------------------------------- patcher.py: dispatch loop (181-225)
\* field_name in custom_field_ids
Resolved(ids, field_name) == \E e \in ids : e.name = field_name
\* custom_field_ids[field_name]
IdOf(ids, field_name) == (CHOOSE e \in ids : e.name = field_name).id

skip_field_silently(st, row, field_name) == st
\* lines 189-190: the warning, then `continue`
skip_field(st, row, field_name) ==
    Logged(st, Entry("WARNING", "skip", 0, row.use_case_id, field_name, "", 0, {}, <<>>))

ShouldSendAlways(dry_run) == TRUE
\* line 209: if not DRY_RUN
ShouldSend(dry_run) == ~dry_run

\* A retry: the request is sent a second time when the first attempt did not
\* succeed, and the outcome is logged once.
send_patch_with_retry(st, row, field_name, custom_field_id, outcome) ==
    LET call == NetCall("PATCH", row.use_case_id, custom_field_id, outcome)
        failed == outcome.raises \/ ~ResponseOk(outcome.status)
        sent == IF failed THEN Sent(Sent(st, call), call) ELSE Sent(st, call)
    IN  Logged(sent,
               IF outcome.raises
               THEN Entry("ERROR", "patch_error", row.idx + 2, row.use_case_id,
                          field_name, "", 0, {}, <<>>)
               ELSE IF failed
               THEN Entry("WARNING", "patch_failed", row.idx + 2, 0, "", "",
                          outcome.status, {}, <<>>)
               ELSE Entry("INFO", "patch_ok", row.idx + 2, row.use_case_id,
                          field_name, "", 0, {}, <<>>))

\* lines 210-223: requests.patch in its try/except
send_patch(st, row, field_name, custom_field_id, outcome) ==
    LET sent == Sent(st, NetCall("PATCH", row.use_case_id, custom_field_id, outcome))
        s1 == IF outcome.raises THEN Raise(sent, {}) ELSE sent
        s2 == IF Running(s1)
              THEN IF ResponseOk(outcome.status)
                   THEN Logged(s1, Entry("INFO", "patch_ok", row.idx + 2, row.use_case_id,
                                         field_name, "", 0, {}, <<>>))
                   ELSE Logged(s1, Entry("WARNING", "patch_failed", row.idx + 2, 0, "", "",
                                         outcome.status, {}, <<>>))
              ELSE s1
    IN  IF Caught(s2)
        THEN Logged(Handled(s2), Entry("ERROR", "patch_error", row.idx + 2, row.use_case_id,
                                       field_name, "", 0, {}, <<>>))
        ELSE s2

\* lines 186-225: the body of the inner loop for one field of one row
dispatch_field(st, row, field_name, ids, dry_run, outcome) ==
    IF ~Resolved(ids, field_name)
    THEN skip_field(st, row, field_name)
    ELSE LET custom_field_id == IdOf(ids, field_name)
             s1 == Logged(st, Entry("INFO", "will_patch", row.idx + 2, row.use_case_id, "",
                                    custom_field_id, 0, {}, <<>>))
         IN  IF ShouldSend(dry_run)
             THEN send_patch(s1, row, field_name, custom_field_id, outcome)
             ELSE s1

\* ------------------------------------------------------------------ state
VARIABLES
    pc,                  \* where the run stands
    call,                \* the function a run of SpecCalls applies
    config, env,         \* the parsed configuration and the environment
    response,            \* the response a called function received
    csv,                 \* the file the loader read
    DRY_RUN, CUSTOM_FIELD_NAMES, NUM_IDS,
    custom_field_ids,    \* name -> identifier, as a set of [name, id]
    df,                  \* the prepared table
    row_i, fld_i,        \* the dispatch loop's position (1-based)
    log, net,            \* log records written, requests sent
    exitCode,            \* the process exit status (NoExit while running)
    ret                  \* the value a called function returned

vars == <<pc, call, config, env, response, csv, DRY_RUN, CUSTOM_FIELD_NAMES, NUM_IDS,
          custom_field_ids, df, row_i, fld_i, log, net, exitCode, ret>>

\* num_ids values that pass validation.
ValidNumIds ==
    { [type |-> "none", val |-> 0] } \cup { [type |-> "int", val |-> n] : n \in 1..(MaxRows + 1) }

CurSt == [St0 EXCEPT !.log = log, !.net = net]
Exited(s) == s.raised = "SystemExit"

\* ------------------------------------------------- Spec: the script patcher.py
\* The script from line 113 on, the configuration having passed lines 54-89.
Init ==
    /\ pc = "fetch"
    /\ call = "patcher"
    /\ config = NoConfig /\ env = NoEnv
    /\ response = NoResponse /\ csv = NoCsv
    /\ DRY_RUN \in BOOLEAN
    /\ CUSTOM_FIELD_NAMES \in FieldLists
    /\ NUM_IDS \in ValidNumIds
    /\ custom_field_ids = {}
    /\ df = NoTable
    /\ row_i = 1 /\ fld_i = 1
    /\ log = <<>> /\ net = <<>>
    /\ exitCode = NoExit
    /\ ret = NoRet

FetchCustomFieldIds ==
    /\ pc = "fetch"
    /\ \E resp \in CatalogResponses :
         LET s == fetch_custom_field_ids(CurSt, resp, CUSTOM_FIELD_NAMES) IN
           /\ log' = s.log /\ net' = s.net
           /\ custom_field_ids' = s.ret.ids
           /\ pc' = IF Exited(s) THEN "exited" ELSE "csv"
           /\ exitCode' = s.code
    /\ UNCHANGED <<call, config, env, response, csv, DRY_RUN, CUSTOM_FIELD_NAMES, NUM_IDS,
                   df, row_i, fld_i, ret>>

ReadCsv ==
    /\ pc = "csv"
    /\ \E c \in Csvs :
         LET s == read_csv(CurSt, c, CUSTOM_FIELD_NAMES, NUM_IDS) IN
           /\ csv' = c
           /\ log' = s.log /\ net' = s.net
           /\ df' = IF Exited(s) THEN df
                    ELSE [columns |-> s.ret.columns, rows |-> s.ret.rows]
           /\ pc' = IF Exited(s) THEN "exited" ELSE "loop"
           /\ exitCode' = s.code
    /\ UNCHANGED <<call, config, env, response, DRY_RUN, CUSTOM_FIELD_NAMES, NUM_IDS,
                   custom_field_ids, row_i, fld_i, ret>>

\* Whether the iteration at hand sends a request (and so meets an outcome).
Sends == Resolved(custom_field_ids, CUSTOM_FIELD_NAMES[fld_i]) /\ ShouldSend(DRY_RUN)

\* One iteration of the inner loop; the loops move on to the next field, or
\* to the first field of the next row.
DispatchStep ==
    /\ pc = "loop"
    /\ row_i <= Len(df.rows)
    /\ \E outcome \in (IF Sends THEN PatchOutcomes ELSE {NoResponse}) :
         LET s == dispatch_field(CurSt, df.rows[row_i], CUSTOM_FIELD_NAMES[fld_i],
                                 custom_field_ids, DRY_RUN, outcome) IN
           /\ log' = s.log /\ net' = s.net
    /\ IF fld_i < Len(CUSTOM_FIELD_NAMES)
       THEN fld_i' = fld_i + 1 /\ row_i' = row_i
       ELSE fld_i' = 1 /\ row_i' = row_i + 1
    /\ UNCHANGED <<pc, call, config, env, response, csv, DRY_RUN, CUSTOM_FIELD_NAMES,
                   NUM_IDS, custom_field_ids, df, exitCode, ret>>

\* The rows are exhausted: the script ends, the interpreter exits with 0.
Finish ==
    /\ pc = "loop"
    /\ row_i > Len(df.rows)
    /\ pc' = "exited"
    /\ exitCode' = 0
    /\ UNCHANGED <<call, config, env, response, csv, DRY_RUN, CUSTOM_FIELD_NAMES, NUM_IDS,
                   custom_field_ids, df, row_i, fld_i, log, net, ret>>

Next == FetchCustomFieldIds \/ ReadCsv \/ DispatchStep \/ Finish

Spec == Init /\ [][Next]_vars

\* ------------------------------- SpecCalls: the functions applied to inputs
\* One run applies one function to inputs drawn from the bounded sets: a
\* validator to a configuration and an environment, get_bearer_token and
\* get_custom_field_ids to a response, read_and_prepare_csv to a file.
InitCalls ==
    /\ pc = "ready"
    /\ \/ /\ call = "config"
          /\ config \in Configs /\ env \in Envs
          /\ CUSTOM_FIELD_NAMES = <<>> /\ NUM_IDS = [type |-> "none", val |-> 0]
       \/ /\ call \in {"get_bearer_token", "get_custom_field_ids", "read_and_prepare_csv"}
          /\ config = NoConfig /\ env = NoEnv
          /\ CUSTOM_FIELD_NAMES \in FieldLists /\ NUM_IDS \in ValidNumIds
    /\ response = NoResponse /\ csv = NoCsv
    /\ DRY_RUN = FALSE
    /\ custom_field_ids = {}
    /\ df = NoTable
    /\ row_i = 1 /\ fld_i = 1
    /\ log = <<>> /\ net = <<>>
    /\ exitCode = NoExit
    /\ ret = NoRet

\* The call ends: with a return, with sys.exit, or with an exception nobody caught.
Ends(s, name) ==
    /\ call' = name
    /\ log' = s.log /\ net' = s.net /\ ret' = s.ret
    /\ exitCode' = s.code
    /\ pc' = IF Exited(s) THEN "exited" ELSE IF Caught(s) THEN "crashed" ELSE "returned"

CallValidateAndExpandConfig ==
    /\ pc = "ready" /\ call = "config"
    /\ Ends(validate_and_expand_config(CurSt, config, env), "validate_and_expand_config")
    /\ UNCHANGED <<config, env, response, csv, DRY_RUN, CUSTOM_FIELD_NAMES, NUM_IDS,
                   custom_field_ids, df, row_i, fld_i>>

CallScriptValidation ==
    /\ pc = "ready" /\ call = "config"
    /\ Ends(script_validation(CurSt, config, env), "script_validation")
    /\ UNCHANGED <<config, env, response, csv, DRY_RUN, CUSTOM_FIELD_NAMES, NUM_IDS,
                   custom_field_ids, df, row_i, fld_i>>

CallGetBearerToken ==
    /\ pc = "ready" /\ call = "get_bearer_token"
    /\ \E resp \in AuthResponses :
         /\ response' = resp
         /\ Ends(get_bearer_token(CurSt, resp), call)
    /\ UNCHANGED <<config, env, csv, DRY_RUN, CUSTOM_FIELD_NAMES, NUM_IDS,
                   custom_field_ids, df, row_i, fld_i>>

CallGetCustomFieldIds ==
    /\ pc = "ready" /\ call = "get_custom_field_ids"
    /\ \E resp \in CatalogResponses :
         /\ response' = resp
         /\ Ends(get_custom_field_ids(CurSt, resp, CUSTOM_FIELD_NAMES), call)
    /\ UNCHANGED <<config, env, csv, DRY_RUN, CUSTOM_FIELD_NAMES, NUM_IDS,
                   custom_field_ids, df, row_i, fld_i>>

CallReadAndPrepareCsv ==
    /\ pc = "ready" /\ call = "read_and_prepare_csv"
    /\ \E c \in Csvs :
         /\ csv' = c
         /\ Ends(read_and_prepare_csv(CurSt, c, CUSTOM_FIELD_NAMES, NUM_IDS), call)
    /\ UNCHANGED <<config, env, response, DRY_RUN, CUSTOM_FIELD_NAMES, NUM_IDS,
                   custom_field_ids, df, row_i, fld_i>>

NextCalls ==
    \/ CallValidateAndExpandConfig
    \/ CallScriptValidation
    \/ CallGetBearerToken
    \/ CallGetCustomFieldIds
    \/ CallReadAndPrepareCsv

SpecCalls == InitCalls /\ [][NextCalls]_vars

\* ================================================================ claims
\* What the formulas read off the state.
IsPatch(c) == c.method = "PATCH"
Patches == SelectSeq(net, IsPatch)
IsOutcome(e) == e.what \in {"patch_ok", "patch_failed", "patch_error"}
Outcomes == SelectSeq(log, IsOutcome)
IsWill(e) == e.what = "will_patch"
Wills == SelectSeq(log, IsWill)
IsSkip(e) == e.what = "skip"
Skips == SelectSeq(log, IsSkip)
ResolvedNames == {e.name : e \in custom_field_ids}

\* The loop's iterations in row-major order: iteration k (from 1) is row
\* (k-1) div n + 1 and field (k-1) mod n + 1, n the length of the field list.
NFields == Len(CUSTOM_FIELD_NAMES)
IterRow(k) == df.rows[((k - 1) \div NFields) + 1]
IterField(k) == CUSTOM_FIELD_NAMES[((k - 1) % NFields) + 1]
ItersDone == (row_i - 1) * NFields + (fld_i - 1)
ItersAll == Len(df.rows) * NFields
ResolvedIters(m) ==
    LET HasId(k) == IterField(k) \in ResolvedNames
    IN  SelectSeq([k \in 1..m |-> k], HasId)
IdFor(name) == (CHOOSE e \in custom_field_ids : e.name = name).id
\* The (use case, custom field identifier) pairs of the first m iterations
\* whose field has a resolved identifier.
ExpectedPairs(m) ==
    LET R == ResolvedIters(m)
    IN  [j \in 1..Len(R) |-> <<IterRow(R[j]).use_case_id, IdFor(IterField(R[j]))>>]
PairsOf(seq) == [j \in 1..Len(seq) |-> <<seq[j].use_case_id, seq[j].id>>]
LoopFinished == pc = "exited" /\ exitCode = 0

\* C1: in non-simulation mode the PATCH attempts made so far are exactly the
\* (row, field) pairs with a resolved identifier among the iterations done so
\* far, in row-major order, one attempt each (so all of them once the loop has
\* finished), whatever the outcomes were; and the k-th attempt is logged with
\* its own outcome: an exception as an error, a status >= 400 as a failure
\* carrying that status, a status < 400 as a success.
C1_PatchesRowMajorOnce ==
    LET P == Patches
        O == Outcomes
    IN  ~DRY_RUN =>
            /\ PairsOf(P) = ExpectedPairs(ItersDone)
            /\ LoopFinished => ItersDone = ItersAll
            /\ Len(O) = Len(P)
            /\ \A k \in 1..Len(P) :
                 /\ O[k].row = P[k].use_case_id + 1
                 /\ O[k].what =
                        IF P[k].raises THEN "patch_error"
                        ELSE IF P[k].status >= 400 THEN "patch_failed"
                        ELSE "patch_ok"
                 /\ O[k].level =
                        IF P[k].raises THEN "ERROR"
                        ELSE IF P[k].status >= 400 THEN "WARNING"
                        ELSE "INFO"
                 /\ (O[k].what = "patch_failed" => O[k].num = P[k].status)

\* C1 witness: a finished run of two rows and two resolved fields whose first
\* attempt returned HTTP 500 and whose second raised, all four pairs attempted.
C1_Witness ==
    /\ ~DRY_RUN /\ LoopFinished
    /\ Len(df.rows) = 2 /\ CUSTOM_FIELD_NAMES = <<"a", "b">>
    /\ Len(Patches) = 4
    /\ ~Patches[1].raises /\ Patches[1].status = 500
    /\ Patches[2].raises
    /\ Outcomes[1].what = "patch_failed"

\* The names of the field list that have / lack a resolved identifier, in
\* configured order.
HasIdName(name) == name \in ResolvedNames
LacksIdName(name) == name \notin ResolvedNames
ResolvedListed == SelectSeq(CUSTOM_FIELD_NAMES, HasIdName)
UnresolvedListed == SelectSeq(CUSTOM_FIELD_NAMES, LacksIdName)
FieldsOf(seq) == [j \in 1..Len(seq) |-> seq[j].field]
IdsOf(seq) == [j \in 1..Len(seq) |-> seq[j].id]
Occurrences(name) == Cardinality({i \in DOMAIN CUSTOM_FIELD_NAMES : CUSTOM_FIELD_NAMES[i] = name})

\* C2: once the loop has finished, every processed row has logged one skip
\* warning per listed field without a resolved identifier (exactly one for a
\* name listed once), in configured order; no PATCH carries such a field; and
\* the row's listed fields with a resolved identifier each got their intended
\* request logged and, outside simulation mode, their PATCH attempt.
C2_SkipWarningPerRow ==
    LoopFinished =>
        \A r \in 1..Len(df.rows) :
            LET OfRow(e) == e.use_case_id = df.rows[r].use_case_id
                rowSkips == SelectSeq(Skips, OfRow)
                rowPatches == SelectSeq(Patches, OfRow)
                rowWills == SelectSeq(Wills, OfRow)
                wanted == [j \in 1..Len(ResolvedListed) |-> IdFor(ResolvedListed[j])]
            IN  /\ FieldsOf(rowSkips) = UnresolvedListed
                /\ \A i \in 1..Len(rowSkips) : rowSkips[i].level = "WARNING"
                /\ \A name \in Range(CUSTOM_FIELD_NAMES) \ ResolvedNames :
                     Occurrences(name) = 1 =>
                        Cardinality({i \in 1..Len(rowSkips) : rowSkips[i].field = name}) = 1
                /\ IdsOf(rowWills) = wanted
                /\ IdsOf(rowPatches) = (IF DRY_RUN THEN <<>> ELSE wanted)

\* C2 witness: a finished non-simulated run of two rows with the list
\* <<a, b>> where a is absent from the catalog and b resolved: two skip
\* warnings for a, two PATCH attempts for b.
C2_Witness ==
    /\ LoopFinished /\ ~DRY_RUN
    /\ Len(df.rows) = 2 /\ CUSTOM_FIELD_NAMES = <<"a", "b">>
    /\ ResolvedNames = {"b"}
    /\ Len(Skips) = 2 /\ Len(Patches) = 2

\* The file read has every required column, and its columns cast to text.
TableLoaded ==
    /\ csv.readable /\ csv.castable
    /\ \A c \in {"use_case_id"} \cup Range(CUSTOM_FIELD_NAMES) :
         c \in csv.header \/ (c = "use_case_id" /\ "id" \in csv.header)

\* C3: in simulation mode no PATCH is ever sent; the intended-request entries
\* logged so far are exactly one per iteration done whose field has a resolved
\* identifier, in row-major order; and a run whose table loaded ends with exit
\* code 0 after all iterations, a run whose table did not load with 1.
C3_DryRunSendsNothing ==
    DRY_RUN =>
        /\ Patches = <<>>
        /\ Outcomes = <<>>
        /\ PairsOf(Wills) = ExpectedPairs(ItersDone)
        /\ pc = "exited" =>
             /\ exitCode = (IF TableLoaded THEN 0 ELSE 1)
             /\ TableLoaded => ItersDone = ItersAll

\* C3 witness: a finished simulated run of two rows and two resolved fields:
\* four intended requests logged, nothing patched, exit code 0.
C3_Witness ==
    /\ DRY_RUN /\ pc = "exited" /\ exitCode = 0
    /\ Len(df.rows) = 2 /\ CUSTOM_FIELD_NAMES = <<"a", "b">>
    /\ Len(Wills) = 4 /\ Patches = <<>>

\* The catalog request of the run, once sent, and whether it failed: the call
\* raised, or its status was not a success.
IsGet(c) == c.method = "GET"
Gets == SelectSeq(net, IsGet)
FetchFailed == Gets # <<>> /\ (Gets[1].raises \/ Gets[1].status >= 400)

\* C4: when the catalog fetch returned a non-success status or raised, the run
\* is fatal: it has exited with code 1, the CSV was never read or dispatched,
\* and no PATCH was issued.
C4_FetchFailureIsFatal ==
    FetchFailed =>
        /\ pc = "exited" /\ exitCode = 1
        /\ csv = NoCsv /\ df = NoTable
        /\ Wills = <<>> /\ Skips = <<>>
        /\ Patches = <<>>

\* What does hold of the script after a failed fetch: it is not fatal; no name
\* is resolved, so every row that is dispatched only logs skip warnings and no
\* PATCH is ever issued.
ScriptGoesOnAfterFailedFetch ==
    FetchFailed =>
        /\ custom_field_ids = {} /\ Patches = <<>> /\ Wills = <<>>
        /\ pc = "exited" => exitCode = (IF TableLoaded THEN 0 ELSE 1)

\* The statement of C4 for utils.get_custom_field_ids, in SpecCalls: a failed
\* request ends the process with exit code 1 and nothing is returned.
UtilsFetchFailureIsFatal ==
    (call = "get_custom_field_ids" /\ pc # "ready") =>
        /\ Len(net) = 1 /\ net[1].method = "GET"
        /\ (response.raises \/ response.status >= 400 \/ ~response.json) <=> pc = "exited"
        /\ pc = "exited" => (exitCode = 1 /\ ret = NoRet)
        /\ pc = "returned" =>
              {e.name : e \in ret.ids} =
                 Range(CUSTOM_FIELD_NAMES) \cap {response.data[i].name : i \in DOMAIN response.data}

\* C5: in simulation mode no network call of any kind is made before or during
\* the dispatch loop, and once the fetch stage is over the name-to-identifier
\* map is the identity on the requested names, so that every requested field
\* counts as resolved.
C5_DryRunBypassesNetwork ==
    DRY_RUN =>
        /\ net = <<>>
        /\ pc # "fetch" =>
             custom_field_ids =
                { [name |-> n, id |-> n] : n \in Range(CUSTOM_FIELD_NAMES) }

\* What does hold of the script in simulation mode: the catalog request is the
\* one request it sends, and only names found in the catalog are resolved.
ScriptDryRunStillFetches ==
    (DRY_RUN /\ pc # "fetch") =>
        /\ Len(net) = 1 /\ net[1].method = "GET"
        /\ \A e \in custom_field_ids : e.name \in Range(CUSTOM_FIELD_NAMES) /\ e.id # e.name

\* The required keys a configuration lacks, read off the configuration itself.
Lacks(v) == v = None \/ v = <<>>
LackingKeys ==
    (IF Lacks(config.csv_path) THEN {"csv_path"} ELSE {}) \cup
    (IF Lacks(config.base_url) THEN {"base_url"} ELSE {}) \cup
    (IF Lacks(config.api_token) THEN {"api_token"} ELSE {}) \cup
    (IF Lacks(config.tenant) THEN {"tenant"} ELSE {}) \cup
    (IF config.custom_field_names.type = "none" \/ config.custom_field_names.items = <<>>
     THEN {"custom_field_names"} ELSE {})
Validated == call \in {"validate_and_expand_config", "script_validation"} /\ pc # "ready"
LastLog == log[Len(log)]

\* C6: a configuration lacking one or more required keys, whatever its other
\* values, ends validation with a nonzero exit, no request sent and no file
\* read, and with a diagnostic naming exactly the lacking keys.
C6_MissingKeysNamedExactly ==
    (Validated /\ LackingKeys # {}) =>
        /\ pc = "exited" /\ exitCode # 0 /\ exitCode # NoExit
        /\ net = <<>> /\ csv = NoCsv
        /\ Len(log) = 1
        /\ LastLog.what = "missing_keys" /\ LastLog.keys = LackingKeys

\* The same statement of utils.validate_and_expand_config alone, which checks
\* the required keys before anything else.
UtilsNamesMissingKeysExactly ==
    call = "validate_and_expand_config" => C6_MissingKeysNamedExactly

\* A token of the form ${X}, and the X it names.
HasRefForm(t) ==
    /\ t # None /\ Len(t) >= 3
    /\ t[1] = "$" /\ t[2] = "{" /\ t[Len(t)] = "}"
RefName(t) == [i \in 1..(Len(t) - 3) |-> t[i + 2]]
EnvValue(name) == IF name \in DOMAIN env THEN env[name] ELSE None

\* C7: for a token of the form ${X}: if X is unset or empty in the environment,
\* validation ends fatally (exit code 1), and with a diagnostic naming X unless
\* validate_and_expand_config has already reported missing keys; if X holds a
\* non-empty value, a validation that returns returns exactly that value as the
\* token.  A token not of the form is returned unchanged.
C7_TokenExpansion ==
    Validated =>
        IF HasRefForm(config.api_token)
        THEN IF Lacks(EnvValue(RefName(config.api_token)))
             THEN /\ pc = "exited" /\ exitCode = 1
                  /\ (LackingKeys = {} \/ call = "script_validation") =>
                        /\ LastLog.what = "env_not_set"
                        /\ LastLog.var = RefName(config.api_token)
             ELSE pc = "returned" => ret.token = EnvValue(RefName(config.api_token))
        ELSE pc = "returned" => ret.token = config.api_token

\* C7 witness: validate_and_expand_config returned the value of X for ${X}.
C7_Witness ==
    /\ call = "validate_and_expand_config" /\ pc = "returned"
    /\ config.api_token = <<"$", "{", "X", "}">>
    /\ env[<<"X">>] = Secret /\ ret.token = Secret

\* C7, the other cases reached: X unset and the diagnostic naming X; a plain
\* token returned as it is.
C7_WitnessUnset ==
    /\ call = "validate_and_expand_config" /\ pc = "exited"
    /\ config.api_token = <<"$", "{", "X", "}">> /\ env[<<"X">>] = None
    /\ LastLog.what = "env_not_set" /\ LastLog.var = <<"X">>
C7_WitnessPlain ==
    /\ call = "script_validation" /\ pc = "returned"
    /\ config.api_token = <<"X", "}">> /\ ret.token = <<"X", "}">>

\* The required columns the header lacks, the header read as the loader exposes
\* it: a raw `id` column under the name use_case_id.
Exposed == (csv.header \ {"id"}) \cup (IF "id" \in csv.header THEN {"use_case_id"} ELSE {})
AbsentRequired == ({"use_case_id"} \cup Range(CUSTOM_FIELD_NAMES)) \ Exposed
Loaded == call = "read_and_prepare_csv" /\ pc # "ready" /\ csv.readable

\* C8: of a file that could be read, the loader fails with the missing-column
\* diagnostic if and only if a required column (use_case_id or a configured
\* field) is absent from the renamed header, and the diagnostic names exactly
\* the absent ones; with none absent (and the columns castable) it returns the
\* table with the raw `id` column exposed as use_case_id.  No other column's
\* absence matters.
C8_RequiredColumns ==
    Loaded =>
        /\ (LastLog.what = "csv_error" /\ LastLog.keys # {}) <=> AbsentRequired # {}
        /\ AbsentRequired # {} =>
              /\ pc = "exited" /\ exitCode = 1
              /\ LastLog.keys = AbsentRequired
        /\ (AbsentRequired = {} /\ csv.castable) =>
              /\ pc = "returned"
              /\ ret.columns = Exposed
              /\ "use_case_id" \in ret.columns /\ "id" \notin ret.columns

\* C8 witness: the header {id, a} with the list <<a>> loads (b is not missed)
\* and exposes use_case_id.
C8_Witness ==
    /\ Loaded /\ pc = "returned"
    /\ csv.header = {"id", "a"} /\ CUSTOM_FIELD_NAMES = <<"a">>
    /\ ret.columns = {"use_case_id", "a"}
C8_WitnessMissing ==
    /\ Loaded /\ pc = "exited"
    /\ csv.header = {"id", "b"} /\ CUSTOM_FIELD_NAMES = <<"a">>
    /\ LastLog.keys = {"a"}

\* The number of rows the loop is to process: min(N, M), or M without num_ids.
RowLimit ==
    IF NUM_IDS.type = "none" THEN csv.nrows
    ELSE IF NUM_IDS.val < csv.nrows THEN NUM_IDS.val ELSE csv.nrows
\* The row a loop record is about (the identifier of row i of the file is i;
\* the row label a message carries is its index + 2, i.e. i + 1).
IsLoopEntry(e) == IsSkip(e) \/ IsWill(e) \/ IsOutcome(e)
LoopEntries == SelectSeq(log, IsLoopEntry)
EntryRow(e) == IF e.row # 0 THEN e.row - 1 ELSE e.use_case_id

\* C9: every loop log record and every PATCH is about one of the first
\* min(N, M) rows of the file (all M rows when num_ids is absent), the rows
\* come in their original order, and once the loop has finished each of those
\* rows was processed.
C9_FirstRowsOnly ==
    LET E == LoopEntries
        P == Patches
        rows == [i \in 1..Len(E) |-> EntryRow(E[i])]
    IN  /\ \A i \in 1..Len(rows) : rows[i] \in 1..RowLimit
        /\ \A i \in 1..Len(P) : P[i].use_case_id \in 1..RowLimit
        /\ \A i \in 1..(Len(rows) - 1) : rows[i] <= rows[i + 1]
        /\ pc = "loop" => Len(df.rows) = RowLimit
        /\ LoopFinished => Range(rows) = 1..RowLimit

\* C9 witness: num_ids = 1 and a file of two rows: the finished run patched
\* the first row only.
C9_Witness ==
    /\ LoopFinished /\ ~DRY_RUN
    /\ NUM_IDS = [type |-> "int", val |-> 1] /\ csv.nrows = 2
    /\ Len(Patches) >= 1
    /\ \A i \in 1..Len(Patches) : Patches[i].use_case_id = 1
C9_WitnessNoLimit ==
    /\ LoopFinished /\ NUM_IDS.type = "none" /\ csv.nrows = 2
    /\ \E i \in 1..Len(LoopEntries) : EntryRow(LoopEntries[i]) = 2

\* C10: get_bearer_token sends exactly one request, a POST; it returns if and
\* only if the call did not raise, the status is a success, the body parses
\* and carries a non-empty access_token, and then returns that token; in every
\* other case the process exits with code 1 and nothing is returned.
Exchanged == call = "get_bearer_token" /\ pc # "ready"
GoodExchange ==
    /\ ~response.raises /\ response.status < 400 /\ response.json
    /\ response.token # None /\ response.token # <<>>
C10_BearerTokenOrExit ==
    Exchanged =>
        /\ Len(net) = 1 /\ net[1].method = "POST"
        /\ pc \in {"returned", "exited"}
        /\ pc = "returned" <=> GoodExchange
        /\ pc = "returned" => (ret.kind = "token" /\ ret.token = response.token
                               /\ exitCode = NoExit)
        /\ pc = "exited" => (exitCode = 1 /\ ret = NoRet /\ LastLog.level = "ERROR")

\* C10 witnesses: a token returned; a non-success status with a token in the
\* body ends in exit 1; a success without access_token ends in exit 1.
C10_Witness ==
    /\ Exchanged /\ pc = "returned" /\ ret.token = Bearer /\ response.status = 399
C10_WitnessStatus ==
    /\ Exchanged /\ pc = "exited" /\ response.status = 500 /\ response.token = Bearer
    /\ LastLog.what = "exchange_failed"
C10_WitnessMissing ==
    /\ Exchanged /\ pc = "exited" /\ response.status = 200 /\ response.json
    /\ response.token = None /\ LastLog.what = "bearer_token_missing"

\* The statement of C8 for the script's own loader (patcher.py 156-178), in
\* Spec: the same columns are required and the same ones reported.
ScriptRequiredColumns ==
    (call = "patcher" /\ pc \in {"loop", "exited"} /\ csv.readable) =>
        /\ (LastLog.what = "csv_error" /\ LastLog.keys # {}) <=> AbsentRequired # {}
        /\ AbsentRequired # {} => (pc = "exited" /\ exitCode = 1 /\ LastLog.keys = AbsentRequired)
        /\ (AbsentRequired = {} /\ csv.castable) => df.columns = Exposed

=============================================================================
